---- MODULE Spec2Model ----
(***************************************************************************)
(* A model of the Todoist MCP server: the Zod schemas of src/tools/        *)
(* schemas.ts, the seven tool handlers, the HTTP client's error            *)
(* classification and the CallTool dispatch shell.                         *)
(*                                                                         *)
(* Strings are sequences of one-character strings, so that toLowerCase()   *)
(* and includes() are computed.  A JavaScript value is a record tagged     *)
(* with its typeof; a number carries NumScale times its value, so that     *)
(* non-integers exist (with NumScale = 2: halves).                         *)
(***************************************************************************)
EXTENDS Integers, Sequences, FiniteSets, TLC

VARIABLES
    pc,         \* position of the one invocation in progress
    tool,       \* request.params.name
    args,       \* request.params.arguments
    params,     \* the handler's validated params (kept across an await)
    calls,      \* the remote calls this invocation has issued, in order
    received,   \* what the service answered to each of them, in order
    result,     \* the envelope returned to the host
    faults,     \* the errors thrown during this invocation, in order
    schema,     \* schema under test (schema unit tests)
    input,      \* the input handed to safeParse
    safeParsed, \* what safeParse returned
    previous,   \* history: the last finished invocation that was recorded
    suspended,  \* the other invocation in flight, waiting at its await
    requests    \* history: remote requests issued in the current 15 minutes

vars ==
    <<pc, tool, args, params, calls, received, result, faults, schema, input, safeParsed,
      previous, suspended, requests>>

serverVars == <<pc, tool, args, params, calls, received, result, faults>>

testVars == <<schema, input, safeParsed>>

-----------------------------------------------------------------------------
(* Bounds of the model *)

NumScale == 2

MaxVaried == 2

SchemaVaried == 3

MaxTasks == 6

ProbeMargin == 3

-----------------------------------------------------------------------------
(* Program constants *)

MinPriority == 1

MaxPriority == 4

MaxLimit == 200

DefaultLimit == 50

MaxShown == 5

\* README: "450 requests per 15 minutes"
RequestLimit == 450

-----------------------------------------------------------------------------
(* JavaScript values *)

None == [t |-> "none"]

Undefined == [t |-> "undefined"]

Null == [t |-> "null"]

Str(s) == [t |-> "string", v |-> s]

Num(h) == [t |-> "number", v |-> h]

Whole(n) == Num(n * NumScale)

Arr(a) == [t |-> "array", v |-> a]

Obj(f) == [t |-> "object", v |-> f]

\* if (x): undefined, null, "" and 0 are falsy; arrays and objects are truthy
Truthy(x) ==
    CASE x.t = "string" -> Len(x.v) > 0
      [] x.t = "number" -> x.v # 0
      [] x.t \in {"array", "object"} -> TRUE
      [] OTHER -> FALSE

Get(o, k) == IF k \in DOMAIN o THEN o[k] ELSE Undefined

LowerChar(c) ==
    CASE c = "A" -> "a"
      [] c = "B" -> "b"
      [] c = "Z" -> "z"
      [] OTHER -> c

toLowerCase(s) == [i \in 1..Len(s) |-> LowerChar(s[i])]

includes(s, q) ==
    \E i \in 0..(Len(s) - Len(q)) : SubSeq(s, i + 1, i + Len(q)) = q

RECURSIVE Flatten(_)
Flatten(ss) == IF ss = <<>> THEN <<>> ELSE Head(ss) \o Flatten(Tail(ss))

-----------------------------------------------------------------------------
(* Zod: a schema maps a value to a status, an output value and issues *)

Issue(path, message) == [path |-> path, message |-> message]

Valid(x) == [status |-> "valid", value |-> x, issues |-> <<>>]

Dirty(x, issues) == [status |-> "dirty", value |-> x, issues |-> issues]

Aborted(issues) == [status |-> "aborted", value |-> Undefined, issues |-> issues]

InvalidType(expected, x) ==
    Issue(<<>>, IF x.t = "undefined" THEN "Required"
                ELSE "Expected " \o expected \o ", received " \o x.t)

PrefixPath(key, issues) ==
    [i \in 1..Len(issues) |->
        Issue(<<key>> \o issues[i].path, issues[i].message)]

\* z.string().min(min, message)
ZodString(x, min, message) ==
    IF x.t # "string" THEN Aborted(<<InvalidType("string", x)>>)
    ELSE IF Len(x.v) < min THEN Dirty(x, <<Issue(<<>>, message)>>)
    ELSE Valid(x)

\* z.string().optional()
ZodOptionalString(x) ==
    IF x = Undefined THEN Valid(Undefined) ELSE ZodString(x, 0, "")

CheckInt == [kind |-> "int", value |-> 0, inclusive |-> TRUE]

CheckMin(n, inclusive) == [kind |-> "min", value |-> n, inclusive |-> inclusive]

CheckMax(n) == [kind |-> "max", value |-> n, inclusive |-> TRUE]

NumberCheckFails(c, h) ==
    CASE c.kind = "int" -> h % NumScale # 0
      [] c.kind = "min" -> IF c.inclusive THEN h < c.value * NumScale
                           ELSE h <= c.value * NumScale
      [] c.kind = "max" -> h > c.value * NumScale

NumberCheckMessage(c) ==
    CASE c.kind = "int" -> "Expected integer, received float"
      [] c.kind = "min" ->
            (IF c.inclusive THEN "Number must be greater than or equal to "
             ELSE "Number must be greater than ") \o ToString(c.value)
      [] c.kind = "max" ->
            "Number must be less than or equal to " \o ToString(c.value)

\* z.number() followed by its checks, every failed check reported
NumberResult(x, failed) ==
    IF failed = <<>> THEN Valid(x)
    ELSE Dirty(x, [i \in 1..Len(failed) |-> Issue(<<>>, NumberCheckMessage(failed[i]))])

ZodNumber(x, checks) ==
    IF x.t # "number" THEN Aborted(<<InvalidType("number", x)>>)
    ELSE NumberResult(x, SelectSeq(checks, LAMBDA c : NumberCheckFails(c, x.v)))

\* z.array(z.string()).optional()
ArrayResult(x, r) ==
    IF \E i \in 1..Len(r) : r[i].status = "aborted"
    THEN Aborted(Flatten([i \in 1..Len(r) |-> PrefixPath(ToString(i - 1), r[i].issues)]))
    ELSE Valid(x)

ZodOptionalStringArray(x) ==
    IF x = Undefined THEN Valid(Undefined)
    ELSE IF x.t # "array" THEN Aborted(<<InvalidType("array", x)>>)
    ELSE ArrayResult(x, [i \in 1..Len(x.v) |-> ZodString(x.v[i], 0, "")])

-----------------------------------------------------------------------------
(* src/tools/schemas.ts *)

MutPriorityNoMax(x) ==
    IF x = Undefined THEN Valid(Undefined)
    ELSE ZodNumber(x, <<CheckInt, CheckMin(MinPriority, TRUE)>>)

prioritySchema(x) ==
    IF x = Undefined THEN Valid(Undefined)
    ELSE ZodNumber(x, <<CheckInt, CheckMin(MinPriority, TRUE), CheckMax(MaxPriority)>>)

MutTaskIdAnyString(x) == ZodString(x, 0, "Task ID is required")

taskIdSchema(x) == ZodString(x, 1, "Task ID is required")

MutLimitNoPositive(x) ==
    ZodNumber(IF x = Undefined THEN Whole(DefaultLimit) ELSE x,
              <<CheckInt, CheckMax(MaxLimit)>>)

\* z.number().int().positive().max(200).default(50)
limitSchema(x) ==
    ZodNumber(IF x = Undefined THEN Whole(DefaultLimit) ELSE x,
              <<CheckInt, CheckMin(0, FALSE), CheckMax(MaxLimit)>>)

FieldSchema(s, x) ==
    CASE s = "content" -> ZodString(x, 1, "Task content is required")
      [] s = "query" -> ZodString(x, 1, "Search query is required")
      [] s = "task_id" -> taskIdSchema(x)
      [] s = "string?" -> ZodOptionalString(x)
      [] s = "priority" -> prioritySchema(x)
      [] s = "labels" -> ZodOptionalStringArray(x)
      [] s = "limit" -> limitSchema(x)

Field(key, s) == [key |-> key, schema |-> s]

KeyIndex(shape, k) == CHOOSE i \in 1..Len(shape) : shape[i].key = k

ObjectValue(shape, r) ==
    Obj([k \in {shape[i].key : i \in 1..Len(shape)} |-> r[KeyIndex(shape, k)].value])

ObjectIssues(shape, r) ==
    Flatten([i \in 1..Len(shape) |-> PrefixPath(shape[i].key, r[i].issues)])

ObjectResult(shape, r) ==
    IF \E i \in 1..Len(shape) : r[i].status = "aborted"
    THEN Aborted(ObjectIssues(shape, r))
    ELSE IF \E i \in 1..Len(shape) : r[i].status = "dirty"
    THEN Dirty(ObjectValue(shape, r), ObjectIssues(shape, r))
    ELSE Valid(ObjectValue(shape, r))

\* z.object(shape): every field is parsed, the issues of all fields are
\* collected in shape order; unknown keys are stripped
ZodObject(shape, x) ==
    IF x.t # "object" THEN Aborted(<<InvalidType("object", x)>>)
    ELSE ObjectResult(shape, [i \in 1..Len(shape) |->
                                 FieldSchema(shape[i].schema, Get(x.v, shape[i].key))])

createTaskShape ==
    << Field("content", "content"),
       Field("description", "string?"),
       Field("project_id", "string?"),
       Field("section_id", "string?"),
       Field("due_date", "string?"),
       Field("priority", "priority"),
       Field("labels", "labels"),
       Field("parent_id", "string?"),
       Field("parent_task_name", "string?") >>

BothParentsMessage ==
    "Cannot specify both parent_id and parent_task_name. Use one or the other."

\* the .refine() callback: false when both are truthy
createTaskRefinement(data) ==
    ~ (Truthy(data.parent_id) /\ Truthy(data.parent_task_name))

\* z.object({...}).refine(...): the refinement runs unless the object aborted
Refined(inner) ==
    IF inner.status = "aborted" THEN inner
    ELSE IF createTaskRefinement(inner.value.v) THEN inner
    ELSE Dirty(inner.value, inner.issues \o <<Issue(<<>>, BothParentsMessage)>>)

createTaskSchema(x) == Refined(ZodObject(createTaskShape, x))

listTasksShape ==
    << Field("project_id", "string?"),
       Field("section_id", "string?"),
       Field("label", "string?"),
       Field("filter", "string?"),
       Field("limit", "limit") >>

listTasksSchema(x) == ZodObject(listTasksShape, x)

getTaskSchema(x) == ZodObject(<<Field("task_id", "task_id")>>, x)

updateTaskShape ==
    << Field("task_id", "task_id"),
       Field("content", "string?"),
       Field("description", "string?"),
       Field("due_date", "string?"),
       Field("priority", "priority"),
       Field("labels", "labels") >>

updateTaskSchema(x) == ZodObject(updateTaskShape, x)

completeTaskSchema(x) == ZodObject(<<Field("task_id", "task_id")>>, x)

listProjectsSchema(x) == ZodObject(<<>>, x)

searchTasksShape == << Field("query", "query"), Field("limit", "limit") >>

searchTasksSchema(x) == ZodObject(searchTasksShape, x)

SchemaNames ==
    { "createTaskSchema", "listTasksSchema", "getTaskSchema", "updateTaskSchema",
      "completeTaskSchema", "listProjectsSchema", "searchTasksSchema" }

SchemaOf(name, x) ==
    CASE name = "createTaskSchema" -> createTaskSchema(x)
      [] name = "listTasksSchema" -> listTasksSchema(x)
      [] name = "getTaskSchema" -> getTaskSchema(x)
      [] name = "updateTaskSchema" -> updateTaskSchema(x)
      [] name = "completeTaskSchema" -> completeTaskSchema(x)
      [] name = "listProjectsSchema" -> listProjectsSchema(x)
      [] name = "searchTasksSchema" -> searchTasksSchema(x)

ZodError(issues) == [name |-> "ZodError", errors |-> issues]

\* schema.safeParse(x), r being what the schema makes of x: success exactly
\* when no issue was raised
safeParse(r) ==
    IF r.issues = <<>> THEN [success |-> TRUE, data |-> r.value]
    ELSE [success |-> FALSE, error |-> ZodError(r.issues)]

-----------------------------------------------------------------------------
(* Argument bundles: the keys of each tool, a base bundle, and per key the *)
(* values a caller may send; a bundle differs from the base in at most     *)
(* `budget` keys.                                                          *)

ToolNames ==
    { "todoist_create_task", "todoist_list_tasks", "todoist_get_task",
      "todoist_update_task", "todoist_complete_task", "todoist_list_projects",
      "todoist_search_tasks" }

SchemaFor(name) ==
    CASE name = "todoist_create_task" -> "createTaskSchema"
      [] name = "todoist_list_tasks" -> "listTasksSchema"
      [] name = "todoist_get_task" -> "getTaskSchema"
      [] name = "todoist_update_task" -> "updateTaskSchema"
      [] name = "todoist_complete_task" -> "completeTaskSchema"
      [] name = "todoist_list_projects" -> "listProjectsSchema"
      [] name = "todoist_search_tasks" -> "searchTasksSchema"

ShapeOf(name) ==
    CASE name = "createTaskSchema" -> createTaskShape
      [] name = "listTasksSchema" -> listTasksShape
      [] name = "getTaskSchema" -> <<Field("task_id", "task_id")>>
      [] name = "updateTaskSchema" -> updateTaskShape
      [] name = "completeTaskSchema" -> <<Field("task_id", "task_id")>>
      [] name = "listProjectsSchema" -> <<>>
      [] name = "searchTasksSchema" -> searchTasksShape

NumbersBetween(lo, hi) == { Num(h) : h \in (lo * NumScale)..(hi * NumScale) }

\* the value a well-formed call sends for a key when nothing is varied
BaseValue(s) ==
    CASE s = "content" -> Str(<<"n">>)
      [] s = "query" -> Str(<<"a">>)
      [] s = "task_id" -> Str(<<"7">>)
      [] OTHER -> Undefined

\* what the tool handlers are driven with
CallValues(key, s) ==
    CASE s = "content" -> { Undefined, Str(<<>>), Str(<<"n">>), Str(<<" ">>) }
      [] s = "query" -> { Undefined, Str(<<>>), Str(<<"a">>), Str(<<"B">>), Str(<<"z">>) }
      [] s = "task_id" -> { Undefined, Str(<<>>), Str(<<"7">>), Str(<<"4", "2">>) }
      [] s = "priority" ->
            { Undefined, Whole(1), Whole(3), Whole(5), Num(2 * NumScale + 1) }
      [] s = "labels" -> { Undefined, Arr(<<>>), Arr(<<Str(<<"l">>)>>) }
      [] s = "limit" ->
            { Undefined, Whole(0), Whole(1), Whole(2), Whole(MaxLimit + 1),
              Num(NumScale + 1) }
      [] key = "parent_task_name" ->
            { Undefined, Str(<<>>), Str(<<"a", "b">>), Str(<<"B">>), Str(<<"z">>) }
      [] key = "parent_id" -> { Undefined, Str(<<>>), Str(<<"9">>) }
      [] OTHER -> { Undefined, Str(<<>>), Str(<<"x">>) }

\* what the schema tests are driven with: the same, plus values of the wrong
\* type
TestValues(key, s) ==
    CallValues(key, s) \cup
    CASE s = "priority" -> { Str(<<"3">>) }
      [] s = "limit" -> { Str(<<"5">>) }
      [] s = "labels" -> { Arr(<<Whole(1)>>), Str(<<"l">>) }
      [] OTHER -> { Whole(7) }

\* every number, integer or not, from below the lower limit of a numeric
\* field to above its upper limit
ProbeValues(s) ==
    CASE s = "priority" ->
            NumbersBetween(MinPriority - ProbeMargin, MaxPriority + ProbeMargin)
      [] s = "limit" -> NumbersBetween(0 - ProbeMargin, MaxLimit + ProbeMargin)
      [] OTHER -> {}

BaseBundle(shape) ==
    [k \in {shape[i].key : i \in 1..Len(shape)} |->
        BaseValue(shape[KeyIndex(shape, k)].schema)]

ProbeBundles(shape) ==
    UNION { { [BaseBundle(shape) EXCEPT ![shape[i].key] = v]
              : v \in ProbeValues(shape[i].schema) }
            : i \in 1..Len(shape) }

FieldValues(f, wide) ==
    IF wide THEN TestValues(f.key, f.schema) ELSE CallValues(f.key, f.schema)

RECURSIVE BundlesFrom(_, _, _, _)
BundlesFrom(shape, wide, budget, acc) ==
    IF shape = <<>> THEN {acc}
    ELSE BundlesFrom(Tail(shape), wide, budget,
                     acc @@ (Head(shape).key :> BaseValue(Head(shape).schema)))
         \cup
         (IF budget = 0 THEN {}
          ELSE UNION { BundlesFrom(Tail(shape), wide, budget - 1,
                                   acc @@ (Head(shape).key :> v))
                       : v \in FieldValues(Head(shape), wide)
                                \ {BaseValue(Head(shape).schema)} })

\* request.params.arguments: an object, or nothing at all
CallArguments(name) ==
    { Obj(b) : b \in BundlesFrom(ShapeOf(SchemaFor(name)), FALSE, MaxVaried, <<>>) }
    \cup { Undefined }

TestInputs(name) ==
    { Obj(b) : b \in BundlesFrom(ShapeOf(name), TRUE, SchemaVaried, <<>>)
                     \cup ProbeBundles(ShapeOf(name)) }
    \cup { Undefined }

-----------------------------------------------------------------------------
(* The remote service as the handlers see it: src/types/todoist.ts *)

IdOf(i) == Str(<<ToString(i)>>)

TaskKinds == { "plain", "rich" }

\* a TodoistTask; string fields are JavaScript strings, nullable ones may be Null
Task(kind, id) ==
    IF kind = "plain"
    THEN [ id |-> id, content |-> Str(<<"A", "b">>), description |-> Str(<<>>),
           priority |-> 1, labels |-> <<>>, due |-> Null, parent_id |-> Null,
           section_id |-> Null, project_id |-> Str(<<"p">>), is_completed |-> FALSE,
           created_at |-> Str(<<"c">>), comment_count |-> 0, url |-> Str(<<"u">>) ]
    ELSE [ id |-> id, content |-> Str(<<"b">>), description |-> Str(<<"a", "Z">>),
           priority |-> 3, labels |-> <<Str(<<"l">>)>>,
           due |-> [string |-> Str(<<"d">>), date |-> Str(<<"2">>), is_recurring |-> TRUE],
           parent_id |-> Str(<<"1">>),
           section_id |-> Str(<<"s">>), project_id |-> Str(<<"p">>), is_completed |-> TRUE,
           created_at |-> Str(<<"c">>), comment_count |-> 1, url |-> Str(<<"u">>) ]

\* the body of GET /tasks: tasks in the order the service returns them
TaskLists ==
    UNION { { Arr([i \in 1..n |-> Task(ks[i], IdOf(i))]) : ks \in [1..n -> TaskKinds] }
            : n \in 0..MaxTasks }

SingleTasks == { Task(k, IdOf(8)) : k \in TaskKinds }

Project(fav, id) ==
    [ id |-> id, name |-> Str(<<"W">>), is_favorite |-> fav,
      is_inbox_project |-> ~fav, is_shared |-> FALSE ]

ProjectLists ==
    { Arr(<<>>), Arr(<<Project(TRUE, IdOf(1))>>),
      Arr(<<Project(FALSE, IdOf(1)), Project(TRUE, IdOf(2))>>) }

\* an AxiosError: the response received (or Null), whether the request was
\* sent, and its message; data.error / data.message are "" when missing
AxiosError(response, request, message) ==
    [response |-> response, request |-> request, message |-> message]

ErrorStatuses == { 304, 400, 404, 429, 500, 503 }

ErrorBodies ==
    { [error |-> "", message |-> ""],
      [error |-> "Task not found", message |-> ""],
      [error |-> "", message |-> "Bad request"] }

AxiosErrors ==
    { AxiosError([status |-> st, data |-> d], TRUE, "Request failed")
      : st \in ErrorStatuses, d \in ErrorBodies }
    \cup { AxiosError(Null, TRUE, "timeout of 30000ms exceeded"),
           AxiosError(Null, FALSE, "Invalid URL"),
           AxiosError(Null, FALSE, "") }

\* a remote call as issued: method, path segments, query params or body
Call(method, path, payload) == [method |-> method, path |-> path, payload |-> payload]

PathIs(call, literal) == Len(call.path) = 1 /\ call.path[1] = literal

Fulfilled(data) == [ok |-> TRUE, data |-> data]

Rejected(error) == [ok |-> FALSE, error |-> error]

\* bodies that are not the JSON the handler expects: null, and the empty
\* text of a response without content
MalformedBodies == { Null, Str(<<>>) }

\* what the service may answer to a call
Responses(call) ==
    { Rejected(e) : e \in AxiosErrors } \cup { Fulfilled(b) : b \in MalformedBodies } \cup
    { Fulfilled(d) :
        d \in CASE call.method = "GET" /\ PathIs(call, "/tasks") -> TaskLists
                [] call.method = "GET" /\ PathIs(call, "/projects") -> ProjectLists
                [] Len(call.path) = 3 -> {}
                [] OTHER -> SingleTasks }

-----------------------------------------------------------------------------
(* src/api/client.ts *)

TodoistApiError(message, statusCode, retryable) ==
    [ name |-> "TodoistApiError", message |-> message,
      statusCode |-> statusCode, retryable |-> retryable ]

RateLimitError ==
    [ name |-> "RateLimitError",
      message |-> "Rate limit exceeded. Please try again later.",
      statusCode |-> 429, retryable |-> TRUE ]

TypeError(message) == [name |-> "TypeError", message |-> message]

\* a || b || c on strings: the first non-empty one
OrElse(a, b) == IF a # "" THEN a ELSE b

\* TodoistClient.handleError: the error it throws
\* data?.error || data?.message || fallback
ErrorMessage(data, fallback) == OrElse(data.error, OrElse(data.message, fallback))

\* TodoistClient.handleError: the error it throws
handleError(error) ==
    IF error.response # Null /\ error.response.status = 429 THEN RateLimitError
    ELSE IF error.response # Null /\ error.response.status >= 400
                                 /\ error.response.status < 500
    THEN TodoistApiError(
             ErrorMessage(error.response.data,
                 "HTTP " \o ToString(error.response.status) \o ": Invalid request"),
             error.response.status, FALSE)
    ELSE IF error.response # Null /\ error.response.status >= 500
    THEN TodoistApiError(ErrorMessage(error.response.data, "Todoist server error"),
                         error.response.status, TRUE)
    ELSE IF error.request
    THEN TodoistApiError("Network error. Please check your internet connection.",
                         0, TRUE)
    ELSE TodoistApiError(OrElse(error.message, "Unknown error occurred"), 0, FALSE)

-----------------------------------------------------------------------------
(* Control flow of a handler: it returns an envelope, throws, or suspends  *)
(* at a remote call.                                                       *)

Return(env) == [k |-> "return", env |-> env]

Throw(err) == [k |-> "throw", err |-> err]

Await(at, call, p) == [k |-> "await", at |-> at, call |-> call, params |-> p]

TextBlock(text) == [type |-> "text", text |-> text]

\* { content: [{ type: 'text', text }] }
Envelope(text) == [content |-> <<TextBlock(text)>>]

\* { content: [{ type: 'text', text }], isError: true }
ErrorEnvelope(text) == [content |-> <<TextBlock(text)>>, isError |-> TRUE]

\* error.errors.map((e) => `${e.path.join('.')}: ${e.message}`).join(', ')
ValidationText(error) ==
    [ prefix |-> "Validation error: ",
      errorMessages |-> [i \in 1..Len(error.errors) |->
                            [path |-> error.errors[i].path,
                             message |-> error.errors[i].message]] ]

MutCatchNoValidationBranch(prefix, o) ==
    IF o.k # "throw" THEN o
    ELSE Return(ErrorEnvelope([prefix |-> prefix, message |-> "validation failed"]))

MutCatchNoErrorFlag(prefix, o) ==
    IF o.k # "throw" THEN o
    ELSE IF o.err.name = "ZodError" THEN Return(ErrorEnvelope(ValidationText(o.err)))
    ELSE Return(Envelope([prefix |-> prefix, message |-> o.err.message]))

\* the catch block every handler ends with
HandlerCatch(prefix, o) ==
    IF o.k # "throw" THEN o
    ELSE IF o.err.name = "ZodError" THEN Return(ErrorEnvelope(ValidationText(o.err)))
    ELSE Return(ErrorEnvelope([prefix |-> prefix, message |-> o.err.message]))

-----------------------------------------------------------------------------
(* src/tools/create-task.ts *)

\* if (cond) f[key] = value
With(f, cond, key, value) == f @@ (IF cond THEN key :> value ELSE <<>>)

\* the CreateTaskParams built from the validated params
createTaskParams(d) ==
    With(With(With(With(With(With(
        "content" :> d.content,
        Truthy(d.description), "description", d.description),
        Truthy(d.project_id), "project_id", d.project_id),
        Truthy(d.section_id), "section_id", d.section_id),
        d.priority # Undefined, "priority", d.priority),
        Truthy(d.labels), "labels", d.labels),
        Truthy(d.due_date), "due_string", d.due_date)

priorityNames == <<"", "Normal", "Medium", "High", "Urgent">>

Line(label, value) == [label |-> label, value |-> value]

Lines(cond, ls) == IF cond THEN ls ELSE <<>>

\* formatTaskDetails of create-task.ts: the lines joined by '\n' (the check
\* mark that opens the first line is left out)
createTaskDetails(task) ==
    << Line("Task created successfully!", ""), Line("", ""),
       Line("ID: ", task.id), Line("Content: ", task.content) >>
    \o Lines(Truthy(task.description), <<Line("Description: ", task.description)>>)
    \o Lines(task.due # Null, <<Line("Due: ", task.due.string)>>)
    \o Lines(task.priority > 1, <<Line("Priority: ", priorityNames[task.priority + 1])>>)
    \o Lines(Len(task.labels) > 0, <<Line("Labels: ", task.labels)>>)
    \o << Line("", ""), Line("View in Todoist: ", task.url) >>

\* lines 109-117: the create call and the success response
createTaskCreated(task) ==
    IF task = Null
    THEN Throw(TypeError("Cannot read properties of null (reading 'id')"))
    ELSE IF task = Str(<<>>)
    THEN Throw(TypeError("Cannot read properties of undefined (reading 'length')"))
    ELSE Return(Envelope(
             [ prefix |-> "Task created successfully!",
               details |-> createTaskDetails(task),
               subtaskNote |-> IF Truthy(task.parent_id) THEN <<task.parent_id>>
                               ELSE <<>> ]))

createTaskPost(d, parentId) ==
    Await("createTask:create",
          Call("POST", <<"/tasks">>,
               With(createTaskParams(d), Truthy(parentId), "parent_id", parentId)),
          d)

MutMatchCaseSensitive(content, name) == includes(content, name)

\* task.content.toLowerCase().includes(parent_task_name.toLowerCase())
parentMatches(content, name) == includes(toLowerCase(content), toLowerCase(name))

Min(a, b) == IF a < b THEN a ELSE b

MutMatchListAll(matches) ==
    [i \in 1..Len(matches) |->
        [n |-> i, content |-> matches[i].content, id |-> matches[i].id]]

\* matches.slice(0, 5).map((t, i) => `${i + 1}. "${t.content}" [ID: ${t.id}]`)
matchList(matches) ==
    [i \in 1..Min(Len(matches), MaxShown) |->
        [n |-> i, content |-> matches[i].content, id |-> matches[i].id]]

\* `\n\n...and ${matches.length - 5} more` or ''
moreText(matches) ==
    IF Len(matches) > MaxShown THEN <<Len(matches) - MaxShown>> ELSE <<>>

MutNoParentUnflagged(d) ==
    Envelope([prefix |-> "No parent task found matching", name |-> d.parent_task_name])

NoParentEnvelope(d) ==
    ErrorEnvelope([prefix |-> "No parent task found matching", name |-> d.parent_task_name])

ManyParentsEnvelope(d, matches) ==
    ErrorEnvelope(
        [ prefix |-> "Found ${matches.length} tasks matching",
          total |-> Len(matches),
          name |-> d.parent_task_name,
          matchList |-> matchList(matches),
          moreText |-> moreText(matches) ])

MutResolvedUsesFirst(d, matches) ==
    IF Len(matches) = 0 THEN Return(NoParentEnvelope(d))
    ELSE createTaskPost(d, matches[1].id)

\* lines 78-104: zero, several or exactly one match
createTaskResolved(d, matches) ==
    IF Len(matches) = 0 THEN Return(NoParentEnvelope(d))
    ELSE IF Len(matches) > 1 THEN Return(ManyParentsEnvelope(d, matches))
    ELSE createTaskPost(d, matches[1].id)

\* lines 71-76: the parent lookup, once GET /tasks has answered
createTaskLookedUp(d, allTasks) ==
    IF allTasks = Null
    THEN Throw(TypeError("Cannot read properties of null (reading 'filter')"))
    ELSE IF allTasks.t = "string"
    THEN Throw(TypeError("allTasks.filter is not a function"))
    ELSE createTaskResolved(d,
             SelectSeq(allTasks.v,
                 LAMBDA t : parentMatches(t.content.v, d.parent_task_name.v)))

\* lines 34-69: the request parameters and the first remote call
createTaskValidated(d) ==
    IF Truthy(d.parent_task_name)
    THEN Await("createTask:lookup", Call("GET", <<"/tasks">>, Undefined), d)
    ELSE createTaskPost(d, d.parent_id)

createTaskParsed(parsed) ==
    IF ~parsed.success THEN Throw(parsed.error) ELSE createTaskValidated(parsed.data.v)

\* line 30: createTaskSchema.parse(args)
createTaskBody(a) == createTaskParsed(safeParse(createTaskSchema(a)))

createTaskCatch(o) == HandlerCatch("Error creating task: ", o)

-----------------------------------------------------------------------------
(* list-tasks.ts *)

\* the validated limit as an integer
LimitOf(d) == d.limit.v \div NumScale

\* tasks.slice(0, limit)
slice(tasks, limit) == SubSeq(tasks, 1, Min(Len(tasks), limit))

\* one line of a task list: `${index + 1}. ${task.content}` and its annotations
TaskLine(task, index) ==
    [ n |-> index, content |-> task.content,
      parts |-> Lines(task.due # Null, <<Line("(Due: ", task.due.string)>>)
                \o Lines(task.priority > 1, <<Line("[P", task.priority)>>)
                \o Lines(Len(task.labels) > 0, <<Line("[", task.labels)>>)
                \o <<Line("[ID: ", task.id)>> ]

MutHeaderCountsShown(prefix, tasks, total) ==
    [ prefix |-> prefix,
      found |-> Len(tasks),
      showingFirst |-> IF total > Len(tasks) THEN <<Len(tasks)>> ELSE <<>>,
      taskLines |-> [i \in 1..Len(tasks) |-> TaskLine(tasks[i], i)] ]

\* formatTaskList / formatSearchResults: the header and the numbered lines
formatTaskList(prefix, tasks, total) ==
    [ prefix |-> prefix,
      found |-> IF total > Len(tasks) THEN total ELSE Len(tasks),
      showingFirst |-> IF total > Len(tasks) THEN <<Len(tasks)>> ELSE <<>>,
      taskLines |-> [i \in 1..Len(tasks) |-> TaskLine(tasks[i], i)] ]

listTasksQuery(d) ==
    With(With(With(With(
        <<>>,
        Truthy(d.project_id), "project_id", d.project_id),
        Truthy(d.section_id), "section_id", d.section_id),
        Truthy(d.label), "label", d.label),
        Truthy(d.filter), "filter", d.filter)

listTasksParsed(parsed) ==
    IF ~parsed.success THEN Throw(parsed.error)
    ELSE Await("listTasks:fetch",
               Call("GET", <<"/tasks">>, listTasksQuery(parsed.data.v)), parsed.data.v)

listTasksBody(a) == listTasksParsed(safeParse(listTasksSchema(a)))

MutEmptyListIsError(limitedTasks, total) ==
    IF Len(limitedTasks) = 0
    THEN Return(ErrorEnvelope([prefix |-> "No tasks found."]))
    ELSE Return(Envelope(formatTaskList("Found ${n} task(s)", limitedTasks, total)))

listTasksLimited(limitedTasks, total) ==
    IF Len(limitedTasks) = 0
    THEN Return(Envelope([prefix |-> "No tasks found."]))
    ELSE Return(Envelope(formatTaskList("Found ${n} task(s)", limitedTasks, total)))

listTasksFetched(d, tasks) ==
    IF tasks = Null
    THEN Throw(TypeError("Cannot read properties of null (reading 'slice')"))
    ELSE IF tasks.t = "string" /\ Len(slice(tasks.v, LimitOf(d))) > 0
    THEN Throw(TypeError("tasks.map is not a function"))
    ELSE listTasksLimited(slice(tasks.v, LimitOf(d)), Len(tasks.v))

listTasksCatch(o) == HandlerCatch("Error listing tasks: ", o)

-----------------------------------------------------------------------------
(* src/tools/search-tasks.ts *)

MutSearchSendsQuery(parsed) ==
    IF ~parsed.success THEN Throw(parsed.error)
    ELSE Await("searchTasks:fetch",
               Call("GET", <<"/tasks">>, "filter" :> parsed.data.v.query), parsed.data.v)

searchTasksParsed(parsed) ==
    IF ~parsed.success THEN Throw(parsed.error)
    ELSE Await("searchTasks:fetch", Call("GET", <<"/tasks">>, Undefined), parsed.data.v)

searchTasksBody(a) == searchTasksParsed(safeParse(searchTasksSchema(a)))

MutSearchContentOnly(task, query) ==
    includes(toLowerCase(task.content.v), toLowerCase(query))

searchMatches(task, query) ==
    \/ includes(toLowerCase(task.content.v), toLowerCase(query))
    \/ includes(toLowerCase(task.description.v), toLowerCase(query))

searchTasksLimited(d, limitedTasks, total) ==
    IF Len(limitedTasks) = 0
    THEN Return(Envelope([prefix |-> "No tasks found matching", query |-> d.query]))
    ELSE Return(Envelope(
             [ query |-> d.query ] @@
             formatTaskList("Found ${n} task(s) matching", limitedTasks, total)))

searchTasksMatched(d, matchingTasks) ==
    searchTasksLimited(d, slice(matchingTasks, LimitOf(d)), Len(matchingTasks))

searchTasksFetched(d, allTasks) ==
    IF allTasks = Null
    THEN Throw(TypeError("Cannot read properties of null (reading 'filter')"))
    ELSE IF allTasks.t = "string"
    THEN Throw(TypeError("allTasks.filter is not a function"))
    ELSE searchTasksMatched(d,
             SelectSeq(allTasks.v, LAMBDA t : searchMatches(t, d.query.v)))

searchTasksCatch(o) == HandlerCatch("Error searching tasks: ", o)

-----------------------------------------------------------------------------
(* src/tools/update-task.ts: update_task, list_projects, get_task *)

MutUpdateDataTruthy(d) ==
    With(With(With(With(With(
        <<>>,
        Truthy(d.content), "content", d.content),
        Truthy(d.description), "description", d.description),
        d.priority # Undefined, "priority", d.priority),
        Truthy(d.labels), "labels", d.labels),
        Truthy(d.due_date), "due_string", d.due_date)

\* the UpdateTaskParams: only the fields that are not undefined
updateData(d) ==
    With(With(With(With(With(
        <<>>,
        d.content # Undefined, "content", d.content),
        d.description # Undefined, "description", d.description),
        d.priority # Undefined, "priority", d.priority),
        d.labels # Undefined, "labels", d.labels),
        d.due_date # Undefined, "due_string", d.due_date)

updateTaskValidated(d) ==
    Await("updateTask:post", Call("POST", <<"/tasks/", d.task_id>>, updateData(d)), d)

updateTaskParsed(parsed) ==
    IF ~parsed.success THEN Throw(parsed.error) ELSE updateTaskValidated(parsed.data.v)

updateTaskBody(a) == updateTaskParsed(safeParse(updateTaskSchema(a)))

formatTaskSummary(task) ==
    << Line("ID: ", task.id), Line("Content: ", task.content) >>
    \o Lines(task.due # Null, <<Line("Due: ", task.due.string)>>)
    \o Lines(task.priority > 1, <<Line("Priority: ", priorityNames[task.priority + 1])>>)
    \o Lines(Len(task.labels) > 0, <<Line("Labels: ", task.labels)>>)
    \o << Line("", ""), Line("View in Todoist: ", task.url) >>

updateTaskPosted(d, task) ==
    IF task = Null
    THEN Throw(TypeError("Cannot read properties of null (reading 'id')"))
    ELSE IF task = Str(<<>>)
    THEN Throw(TypeError("Cannot read properties of undefined (reading 'length')"))
    ELSE Return(Envelope([ prefix |-> "Task updated successfully!",
                           summary |-> formatTaskSummary(task) ]))

updateTaskCatch(o) == HandlerCatch("Error updating task: ", o)

MutProjectsCached(parsed) ==
    IF ~parsed.success THEN Throw(parsed.error)
    ELSE IF /\ previous # None
            /\ previous.tool = "todoist_list_projects"
            /\ Len(previous.received) = 1
            /\ previous.received[1].ok
         THEN Return(previous.result)
    ELSE Await("listProjects:fetch", Call("GET", <<"/projects">>, Undefined),
               parsed.data.v)

listProjectsParsed(parsed) ==
    IF ~parsed.success THEN Throw(parsed.error)
    ELSE Await("listProjects:fetch", Call("GET", <<"/projects">>, Undefined),
               parsed.data.v)

listProjectsBody(a) == listProjectsParsed(safeParse(listProjectsSchema(a)))

ProjectLine(project, index) ==
    [ n |-> index, name |-> project.name,
      parts |-> Lines(project.is_favorite, <<Line("*", "")>>)
                \o Lines(project.is_inbox_project, <<Line("(Inbox)", "")>>)
                \o Lines(project.is_shared, <<Line("(Shared)", "")>>)
                \o <<Line("[ID: ", project.id)>> ]

formatProjectList(projects) ==
    [ prefix |-> "Found ${n} project(s)",
      found |-> Len(projects),
      projectLines |-> [i \in 1..Len(projects) |-> ProjectLine(projects[i], i)] ]

listProjectsFetched(d, projects) ==
    IF projects = Null
    THEN Throw(TypeError("Cannot read properties of null (reading 'length')"))
    ELSE IF projects.t = "string" /\ Len(projects.v) > 0
    THEN Throw(TypeError("projects.map is not a function"))
    ELSE IF Len(projects.v) = 0
    THEN Return(Envelope([prefix |-> "No projects found."]))
    ELSE Return(Envelope(formatProjectList(projects.v)))

listProjectsCatch(o) == HandlerCatch("Error listing projects: ", o)

getTaskValidated(d) ==
    Await("getTask:fetch", Call("GET", <<"/tasks/", d.task_id>>, Undefined), d)

getTaskParsed(parsed) ==
    IF ~parsed.success THEN Throw(parsed.error) ELSE getTaskValidated(parsed.data.v)

getTaskBody(a) == getTaskParsed(safeParse(getTaskSchema(a)))

\* formatTaskDetails of get_task: the long form
getTaskDetails(task) ==
    << Line("Task Details:", ""), Line("ID: ", task.id), Line("Content: ", task.content),
       Line("Completed: ", IF task.is_completed THEN "Yes" ELSE "No") >>
    \o Lines(Truthy(task.description),
             <<Line("", ""), Line("Description:", task.description)>>)
    \o << Line("", "") >>
    \o (IF task.due # Null
        THEN <<Line("Due: ", <<task.due.string, task.due.date>>)>>
             \o Lines(task.due.is_recurring, <<Line("Recurring: Yes", "")>>)
        ELSE <<Line("Due: Not set", "")>>)
    \o << Line("Priority: ", priorityNames[task.priority + 1]) >>
    \o Lines(Len(task.labels) > 0, <<Line("Labels: ", task.labels)>>)
    \o << Line("", ""), Line("Project ID: ", task.project_id) >>
    \o Lines(Truthy(task.section_id), <<Line("Section ID: ", task.section_id)>>)
    \o Lines(Truthy(task.parent_id), <<Line("Parent Task ID: ", task.parent_id)>>)
    \o << Line("", ""), Line("Created: ", task.created_at),
          Line("Comments: ", task.comment_count),
          Line("", ""), Line("View in Todoist: ", task.url) >>

getTaskFetched(d, task) ==
    IF task = Null
    THEN Throw(TypeError("Cannot read properties of null (reading 'id')"))
    ELSE IF task = Str(<<>>)
    THEN Throw(TypeError("Cannot read properties of undefined (reading 'length')"))
    ELSE Return(Envelope([prefix |-> "Task Details:", details |-> getTaskDetails(task)]))

getTaskCatch(o) == HandlerCatch("Error getting task: ", o)

-----------------------------------------------------------------------------
(* src/tools/complete-task.ts *)

MutCompleteOnlyOnce(d) ==
    IF previous # None /\ previous.args = Obj(d)
    THEN Throw(TypeError("Cannot read properties of undefined"))
    ELSE Await("completeTask:post", Call("POST", <<"/tasks/", d.task_id, "/close">>, <<>>), d)

completeTaskValidated(d) ==
    Await("completeTask:post", Call("POST", <<"/tasks/", d.task_id, "/close">>, <<>>), d)

completeTaskParsed(parsed) ==
    IF ~parsed.success THEN Throw(parsed.error) ELSE completeTaskValidated(parsed.data.v)

completeTaskBody(a) == completeTaskParsed(safeParse(completeTaskSchema(a)))

MutCompleteThenFetch(d, body) ==
    Await("getTask:fetch", Call("GET", <<"/tasks/", d.task_id>>, Undefined), d)

\* the response body is not looked at
completeTaskPosted(d, body) ==
    Return(Envelope([prefix |-> "Task ${task_id} marked as completed!",
                     task_id |-> d.task_id]))

completeTaskCatch(o) == HandlerCatch("Error completing task: ", o)

-----------------------------------------------------------------------------
(* index.ts: the CallToolRequestSchema handler *)

\* names a host may send that are in no case of the switch
OtherNames == { "create_task", "todoist_delete_task", "" }

\* the names of the tools: [...] list returned to a ListTools request
listTools ==
    { "todoist_create_task", "todoist_list_tasks", "todoist_get_task",
      "todoist_update_task", "todoist_complete_task", "todoist_list_projects",
      "todoist_search_tasks" }

MutUnknownToolNoName(name) == ErrorEnvelope([prefix |-> "Unknown tool: ", name |-> ""])

UnknownToolEnvelope(name) == ErrorEnvelope([prefix |-> "Unknown tool: ", name |-> name])

\* the try block of the named handler, from its first line
HandlerBody(name, a) ==
    CASE name = "todoist_create_task" -> createTaskBody(a)
      [] name = "todoist_list_tasks" -> listTasksBody(a)
      [] name = "todoist_get_task" -> getTaskBody(a)
      [] name = "todoist_update_task" -> updateTaskBody(a)
      [] name = "todoist_complete_task" -> completeTaskBody(a)
      [] name = "todoist_list_projects" -> listProjectsBody(a)
      [] name = "todoist_search_tasks" -> searchTasksBody(a)

\* the statements of a handler that follow an await, given the data
HandlerContinued(at, d, x) ==
    CASE at = "createTask:lookup" -> createTaskLookedUp(d, x)
      [] at = "createTask:create" -> createTaskCreated(x)
      [] at = "listTasks:fetch" -> listTasksFetched(d, x)
      [] at = "getTask:fetch" -> getTaskFetched(d, x)
      [] at = "updateTask:post" -> updateTaskPosted(d, x)
      [] at = "completeTask:post" -> completeTaskPosted(d, x)
      [] at = "listProjects:fetch" -> listProjectsFetched(d, x)
      [] at = "searchTasks:fetch" -> searchTasksFetched(d, x)

MutResumedCreatesAnyway(at, d, resp) ==
    IF resp.ok THEN HandlerContinued(at, d, resp.data)
    ELSE IF at = "createTask:lookup" THEN createTaskPost(d, d.parent_id)
    ELSE Throw(handleError(resp.error))

\* await client.get/post: the handler goes on with response.data, or the
\* classified error is thrown into it
HandlerResumed(at, d, resp) ==
    IF resp.ok THEN HandlerContinued(at, d, resp.data)
    ELSE Throw(handleError(resp.error))

\* the catch block of the named handler
HandlerCatchOf(name, o) ==
    CASE name = "todoist_create_task" -> createTaskCatch(o)
      [] name = "todoist_list_tasks" -> listTasksCatch(o)
      [] name = "todoist_get_task" -> getTaskCatch(o)
      [] name = "todoist_update_task" -> updateTaskCatch(o)
      [] name = "todoist_complete_task" -> completeTaskCatch(o)
      [] name = "todoist_list_projects" -> listProjectsCatch(o)
      [] name = "todoist_search_tasks" -> searchTasksCatch(o)

MutSwitchWithoutSearch(name, a) ==
    CASE name = "todoist_create_task" -> createTaskCatch(createTaskBody(a))
      [] name = "todoist_list_tasks" -> listTasksCatch(listTasksBody(a))
      [] name = "todoist_get_task" -> getTaskCatch(getTaskBody(a))
      [] name = "todoist_update_task" -> updateTaskCatch(updateTaskBody(a))
      [] name = "todoist_complete_task" -> completeTaskCatch(completeTaskBody(a))
      [] name = "todoist_list_projects" -> listProjectsCatch(listProjectsBody(a))
      [] OTHER -> Return(UnknownToolEnvelope(name))

\* switch (name): the seven cases and the default
CallToolSwitch(name, a) ==
    CASE name = "todoist_create_task" -> createTaskCatch(createTaskBody(a))
      [] name = "todoist_list_tasks" -> listTasksCatch(listTasksBody(a))
      [] name = "todoist_get_task" -> getTaskCatch(getTaskBody(a))
      [] name = "todoist_update_task" -> updateTaskCatch(updateTaskBody(a))
      [] name = "todoist_complete_task" -> completeTaskCatch(completeTaskBody(a))
      [] name = "todoist_list_projects" -> listProjectsCatch(listProjectsBody(a))
      [] name = "todoist_search_tasks" -> searchTasksCatch(searchTasksBody(a))
      [] OTHER -> Return(UnknownToolEnvelope(name))

\* catch (error) of the dispatch shell
CallToolCatch(o) ==
    IF o.k # "throw" THEN o
    ELSE Return(ErrorEnvelope([prefix |-> "Error: ", message |-> o.err.message]))

Thrown(o) == IF o.k = "throw" THEN <<o.err>> ELSE <<>>

\* where the invocation stands after a run of handler code: an envelope was
\* returned, the handler is suspended at a remote call it has issued, or an
\* error left the dispatch shell
Settle(o) ==
    CASE o.k = "return" ->
            /\ pc' = "done"
            /\ result' = o.env
            /\ UNCHANGED <<calls, params>>
      [] o.k = "await" ->
            /\ pc' = o.at
            /\ calls' = Append(calls, o.call)
            /\ params' = o.params
            /\ UNCHANGED result
      [] o.k = "throw" ->
            /\ pc' = "crashed"
            /\ UNCHANGED <<calls, params, result>>

-----------------------------------------------------------------------------
(* Actions: a request arrives; a remote call settles; the envelope is sent *)

\* the dispatch shell runs the handler up to its first await or its return
Invoke(name, a) ==
    /\ tool' = name
    /\ args' = a
    /\ faults' = IF name \in ToolNames THEN Thrown(HandlerBody(name, a)) ELSE <<>>
    /\ \E o \in { CallToolSwitch(name, a) } : Settle(CallToolCatch(o))
    /\ UNCHANGED received
    /\ UNCHANGED testVars
    /\ UNCHANGED previous
    /\ UNCHANGED suspended
    /\ UNCHANGED requests

\* the awaited call settles with resp and the handler runs on
Resume(resp) ==
    /\ received' = Append(received, resp)
    /\ \E body \in { HandlerResumed(pc, params, resp) } :
        /\ faults' = faults \o Thrown(body)
        /\ Settle(CallToolCatch(HandlerCatchOf(tool, body)))
    /\ UNCHANGED <<tool, args>>
    /\ UNCHANGED testVars
    /\ UNCHANGED previous
    /\ UNCHANGED suspended
    /\ UNCHANGED requests

CallCreateTask ==
    /\ pc = "idle"
    /\ \E a \in CallArguments("todoist_create_task") : Invoke("todoist_create_task", a)

CallListTasks ==
    /\ pc = "idle"
    /\ \E a \in CallArguments("todoist_list_tasks") : Invoke("todoist_list_tasks", a)

CallGetTask ==
    /\ pc = "idle"
    /\ \E a \in CallArguments("todoist_get_task") : Invoke("todoist_get_task", a)

CallUpdateTask ==
    /\ pc = "idle"
    /\ \E a \in CallArguments("todoist_update_task") : Invoke("todoist_update_task", a)

CallCompleteTask ==
    /\ pc = "idle"
    /\ \E a \in CallArguments("todoist_complete_task") : Invoke("todoist_complete_task", a)

CallListProjects ==
    /\ pc = "idle"
    /\ \E a \in CallArguments("todoist_list_projects") : Invoke("todoist_list_projects", a)

CallSearchTasks ==
    /\ pc = "idle"
    /\ \E a \in CallArguments("todoist_search_tasks") : Invoke("todoist_search_tasks", a)

CallUnknownTool ==
    /\ pc = "idle"
    /\ \E name \in OtherNames, a \in { Undefined, Obj(<<>>) } : Invoke(name, a)

CreateTaskLookupSettles ==
    /\ pc = "createTask:lookup"
    /\ \E resp \in Responses(calls[Len(calls)]) : Resume(resp)

CreateTaskCreateSettles ==
    /\ pc = "createTask:create"
    /\ \E resp \in Responses(calls[Len(calls)]) : Resume(resp)

ListTasksFetchSettles ==
    /\ pc = "listTasks:fetch"
    /\ \E resp \in Responses(calls[Len(calls)]) : Resume(resp)

GetTaskFetchSettles ==
    /\ pc = "getTask:fetch"
    /\ \E resp \in Responses(calls[Len(calls)]) : Resume(resp)

UpdateTaskPostSettles ==
    /\ pc = "updateTask:post"
    /\ \E resp \in Responses(calls[Len(calls)]) : Resume(resp)

CompleteTaskPostSettles ==
    /\ pc = "completeTask:post"
    /\ \E resp \in Responses(calls[Len(calls)]) : Resume(resp)

ListProjectsFetchSettles ==
    /\ pc = "listProjects:fetch"
    /\ \E resp \in Responses(calls[Len(calls)]) : Resume(resp)

SearchTasksFetchSettles ==
    /\ pc = "searchTasks:fetch"
    /\ \E resp \in Responses(calls[Len(calls)]) : Resume(resp)

\* the envelope goes back to the host; nothing of the invocation is kept
Respond ==
    /\ pc = "done"
    /\ pc' = "idle"
    /\ tool' = "none"
    /\ args' = None
    /\ params' = None
    /\ calls' = <<>>
    /\ received' = <<>>
    /\ result' = None
    /\ faults' = <<>>
    /\ UNCHANGED testVars
    /\ UNCHANGED previous
    /\ UNCHANGED suspended
    /\ UNCHANGED requests

\* the same step, with the finished invocation recorded in the history
RespondRecorded ==
    /\ pc = "done"
    /\ previous' = [ tool |-> tool, args |-> args, calls |-> calls,
                     received |-> received, result |-> result ]
    /\ pc' = "idle"
    /\ tool' = "none"
    /\ args' = None
    /\ params' = None
    /\ calls' = <<>>
    /\ received' = <<>>
    /\ result' = None
    /\ faults' = <<>>
    /\ UNCHANGED testVars
    /\ UNCHANGED suspended
    /\ UNCHANGED requests

\* what an async handler holds while it waits: its request and its locals
Frame ==
    [ pc |-> pc, tool |-> tool, args |-> args, params |-> params, calls |-> calls,
      received |-> received, faults |-> faults ]

\* the handler in progress waits at its await and the server takes the next
\* request: nothing of the waiting invocation stays behind in the server
AwaitYields ==
    /\ pc \notin {"idle", "done"}
    /\ suspended = None
    /\ suspended' = Frame
    /\ pc' = "idle"
    /\ tool' = "none"
    /\ args' = None
    /\ params' = None
    /\ calls' = <<>>
    /\ received' = <<>>
    /\ faults' = <<>>
    /\ UNCHANGED result
    /\ UNCHANGED testVars
    /\ UNCHANGED previous
    /\ UNCHANGED requests

\* the event loop turns to the waiting invocation; the one it leaves, if it
\* is itself waiting at an await, becomes the waiting one
AwaitRegains ==
    /\ suspended # None
    /\ pc # "done"
    /\ suspended' = IF pc = "idle" THEN None ELSE Frame
    /\ pc' = suspended.pc
    /\ tool' = suspended.tool
    /\ args' = suspended.args
    /\ params' = suspended.params
    /\ calls' = suspended.calls
    /\ received' = suspended.received
    /\ faults' = suspended.faults
    /\ UNCHANGED result
    /\ UNCHANGED testVars
    /\ UNCHANGED previous
    /\ UNCHANGED requests

\* the envelope goes back and the requests of the invocation are counted
\* into the current window; the client itself keeps no such count
RespondCounted ==
    /\ pc = "done"
    /\ requests <= RequestLimit
    /\ requests' = requests + Len(calls)
    /\ pc' = "idle"
    /\ tool' = "none"
    /\ args' = None
    /\ params' = None
    /\ calls' = <<>>
    /\ received' = <<>>
    /\ result' = None
    /\ faults' = <<>>
    /\ UNCHANGED testVars
    /\ UNCHANGED previous
    /\ UNCHANGED suspended

\* fifteen minutes pass without a request: the window starts anew
WindowPasses ==
    /\ pc = "idle"
    /\ requests > 0
    /\ requests' = 0
    /\ UNCHANGED serverVars
    /\ UNCHANGED testVars
    /\ UNCHANGED previous
    /\ UNCHANGED suspended

-----------------------------------------------------------------------------
(* The schema unit tests: const result = schema.safeParse(input) *)

TestInit ==
    /\ schema = "none"
    /\ input = None
    /\ safeParsed = None

\* each test case starts from a fresh harness
SafeParseTest ==
    /\ schema = "none"
    /\ \E name \in SchemaNames :
        \E x \in TestInputs(name) :
            /\ schema' = name
            /\ input' = x
            /\ safeParsed' = safeParse(SchemaOf(name, x))
            /\ UNCHANGED serverVars
            /\ UNCHANGED previous
            /\ UNCHANGED suspended
            /\ UNCHANGED requests

ServerInit ==
    /\ pc = "idle"
    /\ tool = "none"
    /\ args = None
    /\ params = None
    /\ calls = <<>>
    /\ received = <<>>
    /\ result = None
    /\ faults = <<>>
    /\ previous = None
    /\ suspended = None
    /\ requests = 0

Init == ServerInit /\ TestInit

SchemaNext == SafeParseTest

SchemaSpec == Init /\ [][SchemaNext]_vars

Next ==
    \/ CallCreateTask
    \/ CallListTasks
    \/ CallGetTask
    \/ CallUpdateTask
    \/ CallCompleteTask
    \/ CallListProjects
    \/ CallSearchTasks
    \/ CallUnknownTool
    \/ CreateTaskLookupSettles
    \/ CreateTaskCreateSettles
    \/ ListTasksFetchSettles
    \/ GetTaskFetchSettles
    \/ UpdateTaskPostSettles
    \/ CompleteTaskPostSettles
    \/ ListProjectsFetchSettles
    \/ SearchTasksFetchSettles
    \/ Respond

Spec == Init /\ [][Next]_vars

\* complete_task invoked time after time, each finished invocation recorded
CompleteNext ==
    \/ CallCompleteTask
    \/ CompleteTaskPostSettles
    \/ RespondRecorded

CompleteSpec == Init /\ [][CompleteNext]_vars

\* two invocations in flight, each waiting at its await while the other runs,
\* with finished invocations recorded for comparison
HistoryNext ==
    \/ CallGetTask
    \/ CallCompleteTask
    \/ CallListProjects
    \/ GetTaskFetchSettles
    \/ CompleteTaskPostSettles
    \/ ListProjectsFetchSettles
    \/ Respond
    \/ RespondRecorded
    \/ AwaitYields
    \/ AwaitRegains

HistorySpec == Init /\ [][HistoryNext]_vars

\* invocation after invocation within windows of fifteen minutes
WindowNext ==
    \/ CallListProjects
    \/ CallCompleteTask
    \/ ListProjectsFetchSettles
    \/ CompleteTaskPostSettles
    \/ RespondCounted
    \/ WindowPasses

WindowSpec == Init /\ [][WindowNext]_vars

-----------------------------------------------------------------------------
(* Properties *)

IsError(env) == "isError" \in DOMAIN env /\ env.isError = TRUE

IsEnvelope(env) ==
    /\ "content" \in DOMAIN env
    /\ DOMAIN env \subseteq {"content", "isError"}
    /\ Len(env.content) = 1
    /\ env.content[1].type = "text"
    /\ "prefix" \in DOMAIN env.content[1].text

TextOf(env) == env.content[1].text

Invoked == pc # "idle"

\* the schema of the tool rejects the arguments
Rejects(name, a) == ~ safeParse(SchemaOf(SchemaFor(name), a)).success

\* letters that differ at most in case
SameLetter(a, b) ==
    \/ a = b
    \/ {a, b} \in { {"a", "A"}, {"b", "B"}, {"z", "Z"} }

\* q occurs in s, case ignored
ContainsIgnoringCase(s, q) ==
    \E k \in 0..(Len(s) - Len(q)) : \A i \in 1..Len(q) : SameLetter(s[k + i], q[i])

\* the fetched tasks whose content contains the name, in fetched order
NameMatches(tasks, name) ==
    SelectSeq(tasks, LAMBDA t : ContainsIgnoringCase(t.content.v, name))

\* create_task has looked the parent up and GET /tasks has answered a list
LookupAnswered ==
    /\ tool = "todoist_create_task"
    /\ Len(received) >= 1
    /\ calls[1].method = "GET"
    /\ received[1].ok
    /\ received[1].data \notin MalformedBodies

ParentCandidates == NameMatches(received[1].data.v, args.v.parent_task_name.v)

\* C1: arguments that violate the schema of the operation give an
\* error-flagged envelope whose text starts with 'Validation error:', and no
\* remote call is issued during the invocation.
C1_ValidationFailureIsContained ==
    (Invoked /\ tool \in ToolNames /\ Rejects(tool, args)) =>
        /\ pc = "done"
        /\ IsError(result)
        /\ TextOf(result).prefix = "Validation error: "
        /\ Len(TextOf(result).errorMessages) >= 1
        /\ calls = <<>>

C1_Witness ==
    /\ pc = "done"
    /\ tool = "todoist_list_projects"
    /\ Rejects(tool, args)
    /\ IsError(result)
    /\ calls = <<>>

\* an invocation took a failure path: an error was thrown, a remote call was
\* rejected, or the operation name is unknown
FailurePath ==
    \/ faults # <<>>
    \/ \E i \in 1..Len(received) : ~ received[i].ok
    \/ tool \notin ToolNames

\* C2: whatever the name, the arguments and the outcomes of the remote
\* calls, no error leaves the dispatch shell; an invocation that is not yet
\* done is waiting for the answer to the call it issued last; a finished one
\* has returned an envelope, error-flagged on every failure path.
C2_NothingEscapesTheDispatchShell ==
    /\ pc # "crashed"
    /\ (Invoked /\ pc # "done") => Len(calls) = Len(received) + 1
    /\ pc = "done" =>
        /\ IsEnvelope(result)
        /\ Len(calls) = Len(received)
        /\ FailurePath => IsError(result)

C2_Witness ==
    /\ pc = "done"
    /\ tool = "todoist_search_tasks"
    /\ Len(received) = 1
    /\ received[1].ok
    /\ received[1].data = Null
    /\ Len(faults) = 1
    /\ faults[1].name = "TypeError"
    /\ IsError(result)

\* C3: a name that is none of the seven catalog names gives an
\* error-flagged envelope naming it, nothing is thrown and no remote call is
\* issued.
C3_UnknownToolIsNamed ==
    (Invoked /\ tool \notin ToolNames) =>
        /\ pc = "done"
        /\ IsError(result)
        /\ TextOf(result).prefix = "Unknown tool: "
        /\ TextOf(result).name = tool
        /\ faults = <<>>
        /\ calls = <<>>

C3_Witness ==
    /\ pc = "done"
    /\ tool = "todoist_delete_task"
    /\ IsError(result)
    /\ TextOf(result).name = "todoist_delete_task"

\* C4: in create_task with parent_task_name, when zero or several fetched
\* tasks contain the name (case ignored), the invocation ends with an
\* error-flagged envelope and never issues POST /tasks.
C4_NoCreateWithoutUniqueParent ==
    (LookupAnswered /\ Len(ParentCandidates) # 1) =>
        /\ pc = "done"
        /\ IsError(result)
        /\ \A i \in 1..Len(calls) : calls[i].method # "POST"

C4_Witness ==
    /\ LookupAnswered
    /\ Len(received[1].data.v) >= 2
    /\ Len(ParentCandidates) = 0
    /\ pc = "done"
    /\ IsError(result)

\* C5: in create_task with parent_task_name, when exactly one fetched task
\* contains the name (case ignored), POST /tasks is issued with parent_id that
\* task's id, and the invocation succeeds when the create call returns a task.
C5_UniqueParentIsUsed ==
    (LookupAnswered /\ Len(ParentCandidates) = 1) =>
        /\ Len(calls) = 2
        /\ calls[2].method = "POST"
        /\ PathIs(calls[2], "/tasks")
        /\ "parent_id" \in DOMAIN calls[2].payload
        /\ calls[2].payload.parent_id = ParentCandidates[1].id
        /\ (Len(received) = 2 /\ received[2].ok /\ received[2].data \notin MalformedBodies) =>
              (pc = "done" /\ ~ IsError(result))

C5_Witness ==
    /\ LookupAnswered
    /\ Len(received[1].data.v) >= 3
    /\ Len(ParentCandidates) = 1
    /\ args.v.parent_task_name = Str(<<"a", "b">>)
    /\ ParentCandidates[1].id = IdOf(2)
    /\ Len(received) = 2
    /\ received[2].ok
    /\ pc = "done"
    /\ ~ IsError(result)

\* C6: with n > 1 matches the error envelope states n, lists exactly the
\* first min(n, 5) matches in fetched order, numbered from 1, each with its
\* content and id, and states the n - 5 remaining ones exactly when n > 5.
C6_AmbiguousParentListing ==
    (LookupAnswered /\ Len(ParentCandidates) > 1) =>
        /\ pc = "done"
        /\ TextOf(result).total = Len(ParentCandidates)
        /\ Len(TextOf(result).matchList) =
              (IF Len(ParentCandidates) < 5 THEN Len(ParentCandidates) ELSE 5)
        /\ \A i \in 1..Len(TextOf(result).matchList) :
              /\ TextOf(result).matchList[i].n = i
              /\ TextOf(result).matchList[i].content = ParentCandidates[i].content
              /\ TextOf(result).matchList[i].id = ParentCandidates[i].id
        /\ TextOf(result).moreText =
              (IF Len(ParentCandidates) > 5 THEN <<Len(ParentCandidates) - 5>> ELSE <<>>)

C6_Witness ==
    /\ LookupAnswered
    /\ Len(ParentCandidates) = 6
    /\ pc = "done"
    /\ Len(TextOf(result).matchList) = 5
    /\ TextOf(result).moreText = <<1>>

\* C7: every create_task bundle in which both parent_id and
\* parent_task_name are present fails validation before any remote call.
C7_BothParentsRejected ==
    ( /\ Invoked
      /\ tool = "todoist_create_task"
      /\ args.t = "object"
      /\ args.v.parent_id # Undefined
      /\ args.v.parent_task_name # Undefined ) =>
        /\ pc = "done"
        /\ IsError(result)
        /\ TextOf(result).prefix = "Validation error: "
        /\ calls = <<>>

-----------------------------------------------------------------------------
(* Properties of the schemas *)

Tested == schema # "none" /\ input.t = "object"

Accepts(name, x) == safeParse(SchemaOf(name, x)).success

WithField(x, key, v) == Obj([x.v EXCEPT ![key] = v])

RequiredKey(name) ==
    CASE name = "createTaskSchema" -> "content"
      [] name = "searchTasksSchema" -> "query"
      [] OTHER -> "task_id"

RequiredSchemas == SchemaNames \ { "listTasksSchema", "listProjectsSchema" }

KnownGood(key) ==
    CASE key = "content" -> Str(<<"n">>)
      [] key = "query" -> Str(<<"a">>)
      [] OTHER -> Str(<<"7">>)

\* C8: the required string field of an operation is accepted whenever it is
\* a non-empty string and the other fields are valid; when it is missing or
\* empty, validation fails with a message qualified by the field.
C8_RequiredStringField ==
    (Tested /\ schema \in RequiredSchemas) =>
        /\ ( /\ input.v[RequiredKey(schema)].t = "string"
             /\ Len(input.v[RequiredKey(schema)].v) >= 1
             /\ Accepts(schema, WithField(input, RequiredKey(schema),
                                          KnownGood(RequiredKey(schema)))) )
           => safeParsed.success
        /\ input.v[RequiredKey(schema)] \in { Undefined, Str(<<>>) } =>
              /\ ~ safeParsed.success
              /\ \E i \in 1..Len(safeParsed.error.errors) :
                    safeParsed.error.errors[i].path = <<RequiredKey(schema)>>

C8_Witness ==
    /\ Tested
    /\ schema = "searchTasksSchema"
    /\ input.v.query = Str(<<>>)
    /\ ~ safeParsed.success
    /\ safeParsed.error.errors[1].path = <<"query">>

AllowedPriority(p) ==
    \/ p = Undefined
    \/ p.t = "number" /\ \E n \in {1, 2, 3, 4} : p.v = n * NumScale

\* C9: on create_task and update_task a priority is accepted exactly when
\* it is absent or one of the integers 1, 2, 3, 4 (the other fields being
\* valid).
C9_PriorityRange ==
    ( /\ Tested
      /\ schema \in { "createTaskSchema", "updateTaskSchema" }
      /\ Accepts(schema, WithField(input, "priority", Undefined)) ) =>
        (safeParsed.success <=> AllowedPriority(input.v.priority))

C9_Witness ==
    /\ Tested
    /\ schema = "updateTaskSchema"
    /\ input.v.priority = Whole(5)
    /\ ~ safeParsed.success

WholeBetween(x, lo, hi) == x.t = "number" /\ \E n \in lo..hi : x.v = n * NumScale

\* C10: on list_tasks and search_tasks the validated limit is 50 when limit
\* is omitted and the supplied value for every integer from 1 to 200;
\* every other number fails validation.
C10_LimitRange ==
    ( /\ Tested
      /\ schema \in { "listTasksSchema", "searchTasksSchema" }
      /\ Accepts(schema, WithField(input, "limit", Undefined)) ) =>
        /\ input.v.limit = Undefined =>
              (safeParsed.success /\ safeParsed.data.v.limit = Whole(50))
        /\ WholeBetween(input.v.limit, 1, 200) =>
              (safeParsed.success /\ safeParsed.data.v.limit = input.v.limit)
        /\ (input.v.limit.t = "number" /\ ~ WholeBetween(input.v.limit, 1, 200)) =>
              ~ safeParsed.success

C10_Witness ==
    /\ Tested
    /\ schema = "searchTasksSchema"
    /\ input.v.limit = Whole(200)
    /\ safeParsed.success
    /\ safeParsed.data.v.limit = Whole(200)

-----------------------------------------------------------------------------
(* Properties of the remote calls *)

\* the invocation's last remote call was rejected
LastRejected == Len(received) >= 1 /\ ~ received[Len(received)].ok

LastError == received[Len(received)].error

\* the class a failed request belongs to: status and retryable as the
\* classification table gives them
ClassOf(e) ==
    IF e.response = Null
    THEN IF e.request THEN [statusCode |-> 0, retryable |-> TRUE]
         ELSE [statusCode |-> 0, retryable |-> FALSE]
    ELSE IF e.response.status = 429 THEN [statusCode |-> 429, retryable |-> TRUE]
    ELSE IF e.response.status \in 400..499
    THEN [statusCode |-> e.response.status, retryable |-> FALSE]
    ELSE IF e.response.status \in 500..599
    THEN [statusCode |-> e.response.status, retryable |-> TRUE]
    ELSE [statusCode |-> 0, retryable |-> FALSE]

\* C11: every failed request is raised as one classified error: 429 is
\* rate-limited and retryable, any other 4xx a non-retryable client error,
\* 5xx a retryable server error, no response a retryable network error with
\* status 0, anything else an unknown error with status 0, not retryable.
C11_EveryFailureClassified ==
    LastRejected =>
        /\ Len(faults) = 1
        /\ faults[1].name \in { "TodoistApiError", "RateLimitError" }
        /\ faults[1].name = "RateLimitError" <=>
              (LastError.response # Null /\ LastError.response.status = 429)
        /\ faults[1].statusCode = ClassOf(LastError).statusCode
        /\ faults[1].retryable = ClassOf(LastError).retryable

\* C12: once a remote call of an invocation has failed, the invocation
\* issues no further call and ends with an error-flagged envelope; a failed
\* parent lookup is never followed by the create call.
C12_NoRetry ==
    \A i \in 1..Len(received) :
        ~ received[i].ok =>
            /\ Len(calls) = i
            /\ Len(received) = i
            /\ pc = "done"
            /\ IsError(result)

C12_Witness ==
    /\ tool = "todoist_create_task"
    /\ LastRejected
    /\ LastError.response # Null
    /\ LastError.response.status = 503
    /\ calls[1].method = "GET"
    /\ Len(calls) = 1
    /\ faults[1].retryable
    /\ IsError(result)

\* C13: an invocation issues at most two remote calls, one after the other;
\* the second is issued only after the first has been answered
\* successfully, and only by create_task given a parent_task_name: the
\* lookup, then the create call.
C13_AtMostTwoSequentialCalls ==
    /\ Len(calls) <= 2
    /\ Len(received) <= Len(calls)
    /\ Len(calls) <= Len(received) + 1
    /\ Len(calls) = 2 =>
        /\ tool = "todoist_create_task"
        /\ Truthy(args.v.parent_task_name)
        /\ calls[1].method = "GET"
        /\ PathIs(calls[1], "/tasks")
        /\ calls[2].method = "POST"
        /\ PathIs(calls[2], "/tasks")
        /\ received[1].ok

C13_Witness ==
    /\ Len(calls) = 2
    /\ Len(received) = 2
    /\ received[2].ok
    /\ pc = "done"

-----------------------------------------------------------------------------
(* Properties of the task lists *)

\* tool has fetched the tasks and GET /tasks has answered a list
TasksAnswered(name) ==
    /\ tool = name
    /\ Len(received) = 1
    /\ received[1].ok
    /\ received[1].data \notin MalformedBodies

FetchedTasks == received[1].data.v

\* the fetched tasks whose content or description contains the query, case
\* ignored, in fetched order
QueryMatches(tasks, query) ==
    SelectSeq(tasks, LAMBDA t : \/ ContainsIgnoringCase(t.content.v, query)
                                \/ ContainsIgnoringCase(t.description.v, query))

\* the tasks the operation is to report: all fetched ones for list_tasks,
\* the matching ones for search_tasks
Reportable ==
    IF tool = "todoist_search_tasks" THEN QueryMatches(FetchedTasks, args.v.query.v)
    ELSE FetchedTasks

\* the limit in force: the one supplied, or 50
LimitInForce == IF args.v.limit = Undefined THEN 50 ELSE args.v.limit.v \div NumScale

\* the id a task line ends with
LineId(line) == line.parts[Len(line.parts)].value

\* C14: search_tasks reports a fetched task as a match exactly when its
\* content or its description contains the query, case ignored: the total
\* stated is the number of such tasks and the lines are such tasks, in
\* fetched order, in an envelope without error flag.
C14_SearchMatchesContentOrDescription ==
    TasksAnswered("todoist_search_tasks") =>
        /\ pc = "done"
        /\ ~ IsError(result)
        /\ Len(Reportable) = 0 <=> TextOf(result).prefix = "No tasks found matching"
        /\ Len(Reportable) > 0 =>
            /\ TextOf(result).found = Len(Reportable)
            /\ Len(TextOf(result).taskLines) >= 1
            /\ \A i \in 1..Len(TextOf(result).taskLines) :
                  /\ LineId(TextOf(result).taskLines[i]) = Reportable[i].id
                  /\ TextOf(result).taskLines[i].content = Reportable[i].content

C14_Witness ==
    /\ TasksAnswered("todoist_search_tasks")
    /\ args.v.query = Str(<<"a">>)
    /\ Len(FetchedTasks) = 2
    /\ ContainsIgnoringCase(FetchedTasks[1].content.v, <<"a">>)
    /\ ~ ContainsIgnoringCase(FetchedTasks[2].content.v, <<"a">>)
    /\ ContainsIgnoringCase(FetchedTasks[2].description.v, <<"a">>)
    /\ ~ IsError(result)
    /\ TextOf(result).found = 2
    /\ Len(TextOf(result).taskLines) = 2

\* C15: list_tasks and search_tasks with N >= 1 (matching) tasks and limit
\* L list exactly the first min(N, L) of them in the order fetched, numbered
\* from 1; the header states N, and states the number shown exactly when
\* N > L.
C15_TruncationKeepsTotal ==
    ( /\ TasksAnswered("todoist_list_tasks") \/ TasksAnswered("todoist_search_tasks")
      /\ Len(Reportable) >= 1 ) =>
        /\ pc = "done"
        /\ ~ IsError(result)
        /\ TextOf(result).found = Len(Reportable)
        /\ Len(TextOf(result).taskLines) =
              (IF Len(Reportable) < LimitInForce THEN Len(Reportable) ELSE LimitInForce)
        /\ \A i \in 1..Len(TextOf(result).taskLines) :
              /\ TextOf(result).taskLines[i].n = i
              /\ LineId(TextOf(result).taskLines[i]) = Reportable[i].id
              /\ TextOf(result).taskLines[i].content = Reportable[i].content
        /\ TextOf(result).showingFirst =
              (IF Len(Reportable) > LimitInForce THEN <<LimitInForce>> ELSE <<>>)

C15_Witness ==
    /\ TasksAnswered("todoist_search_tasks")
    /\ args.v.limit = Whole(2)
    /\ Len(FetchedTasks) = 5
    /\ Len(Reportable) = 3
    /\ TextOf(result).found = 3
    /\ TextOf(result).showingFirst = <<2>>
    /\ Len(TextOf(result).taskLines) = 2

-----------------------------------------------------------------------------
(* Properties of update_task and complete_task *)

\* update_task was invoked with arguments its schema accepts
UpdateInvoked ==
    /\ Invoked
    /\ tool = "todoist_update_task"
    /\ ~ Rejects(tool, args)

UpdatableKeys == { "content", "description", "priority", "labels", "due_date" }

\* the key of the payload a field is sent under
SentAs(key) == IF key = "due_date" THEN "due_string" ELSE key

SuppliedKeys == { k \in UpdatableKeys : args.v[k] # Undefined }

\* C16: update_task issues one POST to the task's endpoint whose payload
\* has exactly the optional fields supplied, each with its value, due_date
\* under due_string, and never task_id; with task_id alone the payload is
\* empty, the call is still issued, and the invocation succeeds when the call
\* answers the task.
C16_UpdateSendsOnlySuppliedFields ==
    UpdateInvoked =>
        /\ Len(calls) = 1
        /\ calls[1].method = "POST"
        /\ calls[1].path = <<"/tasks/", args.v.task_id>>
        /\ DOMAIN calls[1].payload = { SentAs(k) : k \in SuppliedKeys }
        /\ \A k \in SuppliedKeys : calls[1].payload[SentAs(k)] = args.v[k]
        /\ (Len(received) = 1 /\ received[1].ok /\ received[1].data \notin MalformedBodies)
              => (pc = "done" /\ ~ IsError(result))

C16_Witness ==
    /\ UpdateInvoked
    /\ SuppliedKeys = {}
    /\ Len(calls) = 1
    /\ DOMAIN calls[1].payload = {}
    /\ Len(received) = 1
    /\ received[1].ok
    /\ pc = "done"
    /\ ~ IsError(result)
    /\ TextOf(result).prefix = "Task updated successfully!"


\* complete_task is being invoked with the valid arguments of the invocation
\* recorded just before it
SecondCompletion ==
    /\ previous # None
    /\ Invoked
    /\ tool = "todoist_complete_task"
    /\ previous.tool = tool
    /\ previous.args = args
    /\ ~ Rejects(tool, args)

\* exactly one call, to the close endpoint of the task
OneCloseCall(cs, id) ==
    /\ Len(cs) = 1
    /\ cs[1].method = "POST"
    /\ cs[1].path = <<"/tasks/", id, "/close">>

\* the envelope of complete_task as a function of the id and of the answer
\* to its call alone
CompletionEnvelope(id, resp) ==
    IF resp.ok
    THEN Envelope([prefix |-> "Task ${task_id} marked as completed!", task_id |-> id])
    ELSE ErrorEnvelope([ prefix |-> "Error completing task: ",
                         message |-> handleError(resp.error).message ])

\* C17: complete_task invoked twice in sequence with the same valid
\* task_id never crashes; each invocation issues exactly one call to the
\* close endpoint of that id and returns an envelope, and the second
\* envelope depends only on the answer to the second call: the fixed success
\* text when it succeeds, an error-flagged envelope when it is rejected.
C17_CompleteTwice ==
    SecondCompletion =>
        /\ pc # "crashed"
        /\ OneCloseCall(previous.calls, args.v.task_id)
        /\ IsEnvelope(previous.result)
        /\ OneCloseCall(calls, args.v.task_id)
        /\ pc = "done" =>
            /\ IsEnvelope(result)
            /\ Len(received) = 1
            /\ result = CompletionEnvelope(args.v.task_id, received[1])
            /\ IsError(result) <=> ~ received[1].ok

C17_Witness ==
    /\ SecondCompletion
    /\ pc = "done"
    /\ previous.received[1].ok
    /\ ~ IsError(previous.result)
    /\ ~ received[1].ok
    /\ received[1].error.response # Null
    /\ received[1].error.response.status = 404
    /\ IsError(result)

-----------------------------------------------------------------------------
(* Properties of the rendered text *)

EmptyTexts == { "No tasks found.", "No projects found.", "No tasks found matching" }

\* the fixed text the operation has for an empty result
EmptyTextOf(name) ==
    CASE name = "todoist_list_tasks" -> "No tasks found."
      [] name = "todoist_list_projects" -> "No projects found."
      [] name = "todoist_search_tasks" -> "No tasks found matching"

\* the operation's single fetch has answered a list; what it is to report
ListAnswered ==
    /\ tool \in { "todoist_list_tasks", "todoist_list_projects", "todoist_search_tasks" }
    /\ Len(received) = 1
    /\ received[1].ok
    /\ received[1].data \notin MalformedBodies

ToReport == IF tool = "todoist_list_projects" THEN received[1].data.v ELSE Reportable

\* C18: when the fetched list (for search_tasks: the list of matches) is
\* empty, list_tasks, list_projects and search_tasks return their fixed text
\* in an envelope without error flag (search_tasks with the query); a fixed
\* text is returned only then: never for a non-empty list, never on an error
\* path, and never by another operation.
C18_EmptyResultIsSuccess ==
    /\ ListAnswered =>
        /\ pc = "done"
        /\ Len(ToReport) = 0 <=> TextOf(result).prefix = EmptyTextOf(tool)
        /\ Len(ToReport) = 0 => ~ IsError(result)
        /\ (Len(ToReport) = 0 /\ tool = "todoist_search_tasks") =>
              TextOf(result).query = args.v.query
    /\ (pc = "done" /\ TextOf(result).prefix \in EmptyTexts) =>
        /\ tool \in { "todoist_list_tasks", "todoist_list_projects", "todoist_search_tasks" }
        /\ TextOf(result).prefix = EmptyTextOf(tool)
        /\ ~ IsError(result)
        /\ Len(received) = 1
        /\ received[1].ok
        /\ received[1].data # Null
        /\ Len(received[1].data.v) = 0 \/ (ListAnswered /\ Len(ToReport) = 0)

C18_Witness ==
    /\ ListAnswered
    /\ tool = "todoist_search_tasks"
    /\ args.v.query = Str(<<"z">>)
    /\ Len(received[1].data.v) = 2
    /\ Len(ToReport) = 0
    /\ pc = "done"
    /\ ~ IsError(result)
    /\ TextOf(result).prefix = "No tasks found matching"

-----------------------------------------------------------------------------
(* Properties of the validation errors *)

\* the fields of the input that violate their own constraint
ViolatedFields(name, x) ==
    { ShapeOf(name)[i].key : i \in
        { j \in 1..Len(ShapeOf(name)) :
            FieldSchema(ShapeOf(name)[j].schema,
                        Get(x.v, ShapeOf(name)[j].key)).issues # <<>> } }

NonEmptyString(x) == x.t = "string" /\ Len(x.v) >= 1

\* the cross-field rule of create_task is violated: both parents are given
BothParentsGiven(name, x) ==
    /\ name = "createTaskSchema"
    /\ NonEmptyString(x.v.parent_id)
    /\ NonEmptyString(x.v.parent_task_name)

ReportedPaths == { safeParsed.error.errors[i].path : i \in 1..Len(safeParsed.error.errors) }

\* C19: when an input violates several constraints of a schema at once,
\* the validation error reports every one of them: an issue for each
\* violating field, and for create_task the cross-field issue whenever both
\* parents are given, also next to a violating field.
C19_EveryViolationReported ==
    (Tested /\ ~ safeParsed.success) =>
        /\ \A k \in ViolatedFields(schema, input) :
              \E p \in ReportedPaths : Len(p) >= 1 /\ p[1] = k
        /\ BothParentsGiven(schema, input) => <<>> \in ReportedPaths

-----------------------------------------------------------------------------
(* Properties of the priority annotation *)

\* a detail view has been rendered from the task the last call answered
DetailRendered ==
    /\ pc = "done"
    /\ ~ IsError(result)
    /\ tool \in { "todoist_create_task", "todoist_update_task", "todoist_get_task" }

RenderedTask == received[Len(received)].data

DetailLines ==
    CASE tool = "todoist_create_task" -> TextOf(result).details
      [] tool = "todoist_update_task" -> TextOf(result).summary
      [] tool = "todoist_get_task" -> TextOf(result).details

\* a task list has been rendered
ListRendered ==
    /\ pc = "done"
    /\ TasksAnswered("todoist_list_tasks") \/ TasksAnswered("todoist_search_tasks")
    /\ Len(Reportable) >= 1

PriorityLines(lines) == SelectSeq(lines, LAMBDA l : l.label = "Priority: ")

PriorityMarks(parts) == SelectSeq(parts, LAMBDA l : l.label = "[P")

PriorityName(n) ==
    CASE n = 2 -> "Medium"
      [] n = 3 -> "High"
      [] n = 4 -> "Urgent"

\* C20: in every rendered view a task of priority 1 carries no priority
\* annotation, and a task of priority n > 1 carries one: [P<n>] in the lines
\* of list_tasks and search_tasks, the name of the priority in the detail
\* views of create_task, update_task and get_task.
C20_PriorityOneNeverAnnotated ==
    /\ DetailRendered =>
          PriorityLines(DetailLines) =
              (IF RenderedTask.priority > 1
               THEN << [label |-> "Priority: ", value |-> PriorityName(RenderedTask.priority)] >>
               ELSE <<>>)
    /\ ListRendered =>
          \A i \in 1..Len(TextOf(result).taskLines) :
              PriorityMarks(TextOf(result).taskLines[i].parts) =
                  (IF Reportable[i].priority > 1
                   THEN << [label |-> "[P", value |-> Reportable[i].priority] >>
                   ELSE <<>>)

-----------------------------------------------------------------------------
(* C21 *)

Prefix(s, t) == Len(s) <= Len(t) /\ SubSeq(t, 1, Len(s)) = s

\* the invocation in progress got the request of the recorded one, and so
\* far the answers the recorded one got
SameRunSoFar ==
    /\ previous # None
    /\ pc # "idle"
    /\ previous.tool = tool
    /\ previous.args = args
    /\ Prefix(received, previous.received)

-----------------------------------------------------------------------------
(* C22 *)

AnsweredUnknownTool ==
    /\ pc = "done"
    /\ "prefix" \in DOMAIN TextOf(result)
    /\ TextOf(result).prefix = "Unknown tool: "

\* the invocation stands where the handler of its own tool, run on its
\* arguments, leaves it before any answer of the service
AtOwnHandler(o) ==
    CASE o.k = "return" -> pc = "done" /\ result = o.env /\ calls = <<>>
      [] o.k = "await" -> pc = o.at /\ calls = <<o.call>> /\ params = o.params
      [] OTHER -> FALSE

\* C22: the catalog returned to a ListTools request has exactly seven names,
\* and these are the names the dispatch shell routes: an invocation under an
\* advertised name runs the handler of that name and is never answered
\* "Unknown tool", and an invocation under any other name is answered
\* "Unknown tool" without any handler code having run.
C22_CatalogIsDispatched ==
    /\ Cardinality(listTools) = 7
    /\ (Invoked /\ tool \in listTools) =>
           /\ ~ AnsweredUnknownTool
           /\ received = <<>> => AtOwnHandler(HandlerCatchOf(tool, HandlerBody(tool, args)))
    /\ (Invoked /\ tool \notin listTools) =>
           /\ AnsweredUnknownTool
           /\ calls = <<>>
           /\ faults = <<>>

C22_Witness ==
    /\ tool = "todoist_search_tasks"
    /\ tool \in listTools
    /\ pc = "searchTasks:fetch"
    /\ received = <<>>
    /\ ~ AnsweredUnknownTool
-----------------------------------------------------------------------------
(* C23 *)

\* C23: the server limits its own rate: over any sequence of invocations no
\* more than 450 remote requests are issued within one window of 15 minutes.
C23_WithinRequestLimit == requests <= RequestLimit
-----------------------------------------------------------------------------
(* C24 *)

CreateInvoked ==
    /\ Invoked
    /\ tool = "todoist_create_task"
    /\ ~ Rejects(tool, args)

Supplied(key) == args.v[key] # Undefined

IsFetchAll(call) ==
    call.method = "GET" /\ PathIs(call, "/tasks") /\ call.payload = Undefined

IsCreate(call) == call.method = "POST" /\ PathIs(call, "/tasks")

\* C24: in create_task, with parent_task_name supplied and parent_id not, one
\* unfiltered fetch of all tasks is issued first, and the create call comes
\* only after it has answered; with parent_task_name not supplied, no fetch is
\* issued, and the create call carries parent_id exactly when the caller
\* supplied one.
C24_ParentLookupWhenNamed ==
    CreateInvoked =>
        /\ (Supplied("parent_task_name") /\ ~ Supplied("parent_id")) =>
               /\ IsFetchAll(calls[1])
               /\ \A i \in 2..Len(calls) : IsCreate(calls[i]) /\ received[1].ok
               /\ Len(calls) <= 2
        /\ ~ Supplied("parent_task_name") =>
               /\ Len(calls) = 1
               /\ IsCreate(calls[1])
               /\ "parent_id" \in DOMAIN calls[1].payload <=> Supplied("parent_id")
               /\ Supplied("parent_id") => calls[1].payload.parent_id = args.v.parent_id
-----------------------------------------------------------------------------
(* C25 *)

CreateOptionalKeys ==
    { "description", "project_id", "section_id", "priority", "labels", "due_date" }

\* the create call of the invocation, once issued
CreateCalls == { i \in 1..Len(calls) : IsCreate(calls[i]) }

\* C25: in create_task every optional field the caller supplies (description,
\* project_id, section_id, priority, labels, due_date) is in the payload of the
\* create call with its value unchanged, due_date under due_string, and the
\* payload has no other due field.
C25_CreateCarriesSuppliedFields ==
    CreateInvoked =>
        \A i \in CreateCalls :
            /\ \A k \in CreateOptionalKeys :
                   Supplied(k) =>
                       /\ SentAs(k) \in DOMAIN calls[i].payload
                       /\ calls[i].payload[SentAs(k)] = args.v[k]
            /\ DOMAIN calls[i].payload \cap {"due_date", "due_datetime", "due_lang"} = {}
-----------------------------------------------------------------------------
(* C26 *)

ListInvoked ==
    /\ Invoked
    /\ tool = "todoist_list_tasks"
    /\ args # Undefined
    /\ ~ Rejects(tool, args)

FilterKeys == { "project_id", "section_id", "label", "filter" }

\* C26: list_tasks issues a single fetch of /tasks whose query parameters are
\* exactly the filters the caller supplied among project_id, section_id,
\* label and filter, each with its value; a filter not supplied is absent,
\* and limit is never among them.
C26_ListForwardsSuppliedFilters ==
    ListInvoked =>
        /\ Len(calls) = 1
        /\ calls[1].method = "GET"
        /\ PathIs(calls[1], "/tasks")
        /\ DOMAIN calls[1].payload = { k \in FilterKeys : Supplied(k) }
        /\ \A k \in DOMAIN calls[1].payload : calls[1].payload[k] = args.v[k]
        /\ "limit" \notin DOMAIN calls[1].payload
-----------------------------------------------------------------------------
(* C27 *)

IsNetworkError(e) ==
    /\ e.message = "Network error. Please check your internet connection."
    /\ e.statusCode = 0
    /\ e.retryable

\* C27: the client raises the network error (status 0, retryable, the
\* "Network error" message) only for a failure without a response; a failure
\* whose response has a status outside 4xx and 5xx is raised as an unknown
\* error, status 0 and not retryable.
C27_NetworkErrorOnlyWithoutResponse ==
    (LastRejected /\ Len(faults) = 1) =>
        /\ IsNetworkError(faults[1]) => LastError.response = Null
        /\ (LastError.response # Null /\ LastError.response.status \notin 400..599) =>
               (faults[1].statusCode = 0 /\ ~ faults[1].retryable)
-----------------------------------------------------------------------------
(* C28 *)

\* a tool invoked with arguments its schema accepts; create_task only
\* without parent_task_name
ValidSingleCallInvocation ==
    /\ Invoked
    /\ tool \in ToolNames
    /\ ~ Rejects(tool, args)
    /\ tool = "todoist_create_task" => ~ Supplied("parent_task_name")

\* the one call the tool is to issue
IsCallOf(name, call) ==
    CASE name = "todoist_list_tasks" ->
            /\ call.method = "GET"
            /\ PathIs(call, "/tasks")
            /\ DOMAIN call.payload \subseteq FilterKeys
      [] name = "todoist_get_task" ->
            /\ call.method = "GET"
            /\ call.path = <<"/tasks/", args.v.task_id>>
      [] name = "todoist_update_task" ->
            /\ call.method = "POST"
            /\ call.path = <<"/tasks/", args.v.task_id>>
      [] name = "todoist_complete_task" ->
            /\ call.method = "POST"
            /\ call.path = <<"/tasks/", args.v.task_id, "/close">>
      [] name = "todoist_list_projects" ->
            /\ call.method = "GET"
            /\ PathIs(call, "/projects")
      [] name = "todoist_search_tasks" -> IsFetchAll(call)
      [] name = "todoist_create_task" -> IsCreate(call)

\* C28: on valid input list_tasks, get_task, update_task, complete_task,
\* list_projects and search_tasks each issue exactly one remote call (fetch
\* tasks with the filters, fetch the task by id, update it by id, close it by
\* id, fetch the projects, fetch all tasks with no filter and no query
\* parameter), and create_task without parent_task_name issues exactly the
\* create call; the invocation returns only once that call has settled.
C28_OneCallOnValidInput ==
    ValidSingleCallInvocation =>
        /\ Len(calls) = 1
        /\ IsCallOf(tool, calls[1])
        /\ pc = "done" <=> Len(received) = 1

C28_Witness ==
    /\ ValidSingleCallInvocation
    /\ tool = "todoist_search_tasks"
    /\ pc = "done"
    /\ Len(calls) = 1
    /\ ~ IsError(result)
-----------------------------------------------------------------------------
(* C29 *)

OneTextBlock(env) ==
    /\ DOMAIN env \subseteq {"content", "isError"}
    /\ "content" \in DOMAIN env
    /\ Len(env.content) = 1
    /\ env.content[1].type = "text"

ValidationFailed == tool \in ToolNames /\ Rejects(tool, args)

ResolutionFailed == LookupAnswered /\ Len(ParentCandidates) # 1

RemoteCallFailed == \E i \in 1..Len(received) : ~ received[i].ok

InternalStepFailed == \E i \in 1..Len(faults) : faults[i].name = "TypeError"

ListedFailure ==
    \/ ValidationFailed
    \/ ResolutionFailed
    \/ tool \notin ToolNames
    \/ RemoteCallFailed
    \/ InternalStepFailed

AllCallsSucceeded ==
    /\ Len(received) >= 1
    /\ \A i \in 1..Len(received) : received[i].ok

====
